---------------------------- MODULE Spec2Model ----------------------------
(***************************************************************************)
(* The admission gate of the YouTube download service: the per-video       *)
(* attempt history (downloadAttempts), the rate-limit check and the proxy  *)
(* rotation of YouTubeDownloadManager, together with the two HTTP handlers *)
(* that drive them (POST /youtube-download and POST /video-info).          *)
(*                                                                         *)
(* Node runs every handler on one event loop: the code between two awaits  *)
(* is one atomic step.  Each action below is one such synchronous run.     *)
(***************************************************************************)
EXTENDS Integers, Sequences, FiniteSets, TLC

(***************************************************************************)
(* Program constants.                                                      *)
(***************************************************************************)
MAX_ATTEMPTS == 5
TIME_WINDOW == 60000

(***************************************************************************)
(* Bounds of the model.                                                    *)
(***************************************************************************)
NumReqs == 2          \* request slots handled concurrently
MaxCalls == 6         \* downloads admitted within one window
MaxTime == 119998     \* the clock stops advancing here
MaxHist == 6          \* timestamps stored by direct recordAttempt calls
HandedWindow == 4     \* how many getNextProxy results are remembered

Reqs == 1..NumReqs

(***************************************************************************)
(* Inputs.                                                                 *)
(***************************************************************************)
Undefined == "<undefined>"     \* an unset environment variable / body field
Null == "<null>"               \* JavaScript null

VideoIds == {"v1", "v2"}

\* Request bodies: videoUrl missing, not a YouTube URL, or the URL of a video.
Urls == {Undefined, "not-a-url", "https://youtu.be/v1"}

\* ytdl.validateURL / ytdl.getVideoID on the URLs above.
validateURL(url) == url \in {"https://youtu.be/v1"}

getVideoID(url) == CASE url = "https://youtu.be/v1" -> "v1"

\* Values of process.env.PROXY_1 .. PROXY_3 (fixed for the process lifetime).
EnvConfigs == { <<Undefined, "", Undefined>>,
                <<"proxyA", "proxyB", Undefined>>,
                <<"", "proxyA", Undefined>>,
                <<"proxyA", "proxyB", "proxyC">> }

\* The clock advances by one of these amounts (ms).
TickSteps == {TIME_WINDOW - 1, TIME_WINDOW}

(***************************************************************************)
(* Error messages.                                                         *)
(***************************************************************************)
RateLimitMsg == "Rate limit exceeded. Please try again later."
InfoErrMsg == "Failed to get video info: upstream"
StreamErrMsg == "upstream"
ReadErrMsg == "ENOENT"

VARIABLES
  env,                \* process.env.PROXY_1..3
  currentProxyIndex,  \* YouTubeDownloadManager.currentProxyIndex
  downloadAttempts,   \* the Map videoId -> array of timestamps
  now,                \* Date.now()
  pc,                 \* per request: where its handler is suspended
  vid,                \* per request: videoId of the call in progress
  resp,               \* the HTTP response sent by the step just taken, if any
  refusedAt,          \* per video: when a download was last refused by the
                      \* rate limit, -1 if never
  starts,             \* per video: when downloadVideo called ytdl.getInfo,
                      \* for the calls of the last TIME_WINDOW ms
  handed,             \* the last HandedWindow values returned by getNextProxy
  ret                 \* the gate operation called directly by the step just
                      \* taken, and its result

vars == <<env, currentProxyIndex, downloadAttempts, now, pc, vid, resp,
          refusedAt, starts, handed, ret>>

(***************************************************************************)
(* Helpers for JavaScript values.                                          *)
(***************************************************************************)
\* Boolean(x) for the strings used here.
Truthy(x) == x \notin {Undefined, Null, ""}

\* Map.prototype.get(k) || []
MapGet(m, k) == IF k \in DOMAIN m THEN m[k] ELSE <<>>

\* Map.prototype.set(k, v)
MapSet(m, k, v) == [x \in (DOMAIN m) \cup {k} |-> IF x = k THEN v ELSE m[x]]

(***************************************************************************)
(* YouTubeDownloadManager.                                                 *)
(***************************************************************************)
\* [PROXY_1, PROXY_2, PROXY_3].filter(Boolean); SelectSeq is Array.filter.
Proxies(e) == SelectSeq(e, Truthy)

\* Variant: the entry at the old cursor is returned, then the cursor moves.
getNextProxy_postIncrement(e, cursor) ==
  LET proxies == Proxies(e) IN
  IF Len(proxies) = 0
  THEN [cursor |-> cursor, proxy |-> Null]
  ELSE [cursor |-> (cursor + 1) % Len(proxies), proxy |-> proxies[cursor + 1]]

\* Variant: the cursor moves even when the pool is empty.
getNextProxy_countsWhenEmpty(e, cursor) ==
  LET proxies == Proxies(e) IN
  IF Len(proxies) = 0
  THEN [cursor |-> cursor + 1, proxy |-> Null]
  ELSE LET c == (cursor + 1) % Len(proxies)
       IN [cursor |-> c, proxy |-> proxies[c + 1]]

\* Variant: the cursor wraps one position too late (an index past the end
\* of the array reads undefined).
getNextProxy_wrapsLate(e, cursor) ==
  LET proxies == Proxies(e) IN
  IF Len(proxies) = 0
  THEN [cursor |-> cursor, proxy |-> Null]
  ELSE LET c == (cursor + 1) % (Len(proxies) + 1)
       IN [cursor |-> c,
           proxy |-> IF c < Len(proxies) THEN proxies[c + 1] ELSE Undefined]

\* getNextProxy(): the new cursor and the value returned.
getNextProxy(e, cursor) ==
  LET proxies == Proxies(e) IN
  IF Len(proxies) = 0
  THEN [cursor |-> cursor, proxy |-> Null]
  ELSE LET c == (cursor + 1) % Len(proxies)
       IN [cursor |-> c, proxy |-> proxies[c + 1]]

\* Variant: the threshold is compared with > instead of >=.
isRateLimited_strictThreshold(m, videoId, t) ==
  LET attempts == MapGet(m, videoId)
      Recent(time) == t - time < TIME_WINDOW
      recentAttempts == SelectSeq(attempts, Recent)
  IN [map |-> MapSet(m, videoId, recentAttempts),
      limited |-> Len(recentAttempts) > MAX_ATTEMPTS]

\* Variant: the window is compared with <= instead of <.
isRateLimited_inclusiveWindow(m, videoId, t) ==
  LET attempts == MapGet(m, videoId)
      Recent(time) == t - time <= TIME_WINDOW
      recentAttempts == SelectSeq(attempts, Recent)
  IN [map |-> MapSet(m, videoId, recentAttempts),
      limited |-> Len(recentAttempts) >= MAX_ATTEMPTS]

\* Variant: the stored attempts are counted without filtering.
isRateLimited_noFilter(m, videoId, t) ==
  LET attempts == MapGet(m, videoId)
  IN [map |-> MapSet(m, videoId, attempts),
      limited |-> Len(attempts) >= MAX_ATTEMPTS]

\* Variant: the filtered array is counted but not stored.
isRateLimited_noWriteBack(m, videoId, t) ==
  LET attempts == MapGet(m, videoId)
      Recent(time) == t - time < TIME_WINDOW
      recentAttempts == SelectSeq(attempts, Recent)
  IN [map |-> m,
      limited |-> Len(recentAttempts) >= MAX_ATTEMPTS]

\* Variant: an identifier left with no attempt in the window is deleted.
isRateLimited_evicting(m, videoId, t) ==
  LET attempts == MapGet(m, videoId)
      Recent(time) == t - time < TIME_WINDOW
      recentAttempts == SelectSeq(attempts, Recent)
  IN [map |-> IF Len(recentAttempts) = 0
              THEN [x \in (DOMAIN m) \ {videoId} |-> m[x]]
              ELSE MapSet(m, videoId, recentAttempts),
      limited |-> Len(recentAttempts) >= MAX_ATTEMPTS]

\* isRateLimited(videoId): the new map and the boolean returned.
isRateLimited(m, videoId, t) ==
  LET attempts == MapGet(m, videoId)
      Recent(time) == t - time < TIME_WINDOW
      recentAttempts == SelectSeq(attempts, Recent)
  IN [map |-> MapSet(m, videoId, recentAttempts),
      limited |-> Len(recentAttempts) >= MAX_ATTEMPTS]

\* Variant: a timestamp that is already stored is not stored again.
recordAttempt_unique(m, videoId, t) ==
  LET attempts == MapGet(m, videoId)
  IN MapSet(m, videoId,
            IF \E i \in 1..Len(attempts) : attempts[i] = t
            THEN attempts ELSE Append(attempts, t))

\* Variant: the timestamp is put at the front of the array.
recordAttempt_unshift(m, videoId, t) ==
  MapSet(m, videoId, <<t>> \o MapGet(m, videoId))

\* Variant: the timestamps outside the window are dropped on write.
recordAttempt_pruning(m, videoId, t) ==
  LET Recent(time) == t - time < TIME_WINDOW
  IN MapSet(m, videoId, Append(SelectSeq(MapGet(m, videoId), Recent), t))

\* Variant: one array is shared by all the identifiers.
recordAttempt_shared(m, videoId, t) ==
  [x \in (DOMAIN m) \cup {videoId} |-> Append(MapGet(m, x), t)]

\* recordAttempt(videoId): the new map.
recordAttempt(m, videoId, t) ==
  MapSet(m, videoId, Append(MapGet(m, videoId), t))


(***************************************************************************)
(* Responses and observations.                                             *)
(***************************************************************************)
NoResp == [route |-> "", status |-> 0, error |-> ""]
Respond(route, status, msg) ==
  [route |-> route, status |-> status, error |-> msg]

Download == "/youtube-download"
VideoInfo == "/video-info"

NoRet == [op |-> "none", id |-> Null, value |-> Null]
Ret(op, id, value) == [op |-> op, id |-> id, value |-> value]

\* handed after getNextProxy returned v.
Remember(h, v) ==
  IF Len(h) < HandedWindow THEN Append(h, v) ELSE Append(Tail(h), v)

\* The number of timestamps held by a map of sequences.
RECURSIVE SumLen(_, _)
SumLen(f, S) ==
  IF S = {} THEN 0
  ELSE LET x == CHOOSE y \in S : TRUE IN Len(f[x]) + SumLen(f, S \ {x})

\* starts after the clock has moved to t: calls older than the window are
\* forgotten.
Forget(st, t) ==
  [v \in DOMAIN st |-> SelectSeq(st[v], LAMBDA at : t - at < TIME_WINDOW)]

\* A new request is handled in the first free slot (the slots are
\* interchangeable).
FreeSlot(p) == pc[p] = "idle" /\ \A q \in Reqs : q < p => pc[q] # "idle"

(***************************************************************************)
(* Initial state: module load and `new YouTubeDownloadManager()`.          *)
(***************************************************************************)
InitState ==
  /\ currentProxyIndex = 0
  /\ downloadAttempts = <<>>
  /\ now = 0
  /\ pc = [p \in Reqs |-> "idle"]
  /\ vid = [p \in Reqs |-> Null]
  /\ resp = NoResp
  /\ refusedAt = [v \in VideoIds |-> -1]
  /\ starts = [v \in VideoIds |-> <<>>]
  /\ handed = <<>>
  /\ ret = NoRet

Init == env = <<"proxyA", "proxyB", Undefined>> /\ InitState

\* The same service started with no proxy configured.
InitNoProxy == env = <<Undefined, "", Undefined>> /\ InitState

(***************************************************************************)
(* Time passes.                                                            *)
(***************************************************************************)
Tick(d) ==
  /\ now + d <= MaxTime
  /\ now' = now + d
  /\ starts' = Forget(starts, now + d)
  /\ resp' = NoResp
  /\ ret' = NoRet
  /\ UNCHANGED <<env, refusedAt, currentProxyIndex, downloadAttempts, pc, vid,
                 handed>>

(***************************************************************************)
(* POST /youtube-download, up to the first await.                          *)
(***************************************************************************)
\* 400: videoUrl missing, or not a YouTube URL.
DownloadBadRequest(p, url) ==
  /\ FreeSlot(p)
  /\ ~Truthy(url) \/ ~validateURL(url)
  /\ resp' = Respond(Download, 400,
                      IF ~Truthy(url) THEN "Video URL is required"
                      ELSE "Invalid YouTube URL")
  /\ UNCHANGED <<env, refusedAt, currentProxyIndex, downloadAttempts, now, pc,
                 vid, starts, handed, ret>>

\* Variant: the refusal is recorded as an attempt.
DownloadRefused_recording(p, url) ==
  /\ FreeSlot(p)
  /\ Truthy(url) /\ validateURL(url)
  /\ LET videoId == getVideoID(url)
         chk == isRateLimited(downloadAttempts, videoId, now)
     IN /\ chk.limited
        /\ downloadAttempts' = recordAttempt(chk.map, videoId, now)
        /\ resp' = Respond(Download, 500, RateLimitMsg)
        /\ refusedAt' = [refusedAt EXCEPT ![videoId] = now]
        /\ UNCHANGED <<env, currentProxyIndex, now, pc, vid, starts, handed,
                       ret>>

\* Variant: the proxy is selected before the rate-limit check.
DownloadRefused_rotating(p, url) ==
  /\ FreeSlot(p)
  /\ Truthy(url) /\ validateURL(url)
  /\ LET videoId == getVideoID(url)
         chk == isRateLimited(downloadAttempts, videoId, now)
         nxt == getNextProxy(env, currentProxyIndex)
     IN /\ chk.limited
        /\ downloadAttempts' = chk.map
        /\ currentProxyIndex' = nxt.cursor
        /\ handed' = Remember(handed, nxt.proxy)
        /\ resp' = Respond(Download, 500, RateLimitMsg)
        /\ refusedAt' = [refusedAt EXCEPT ![videoId] = now]
        /\ UNCHANGED <<env, now, pc, vid, starts, ret>>

\* downloadVideo throws at the rate-limit check; the handler answers 500.
DownloadRefused(p, url) ==
  /\ FreeSlot(p)
  /\ Truthy(url) /\ validateURL(url)
  /\ LET videoId == getVideoID(url)
         chk == isRateLimited(downloadAttempts, videoId, now)
     IN /\ chk.limited
        /\ downloadAttempts' = chk.map
        /\ resp' = Respond(Download, 500, RateLimitMsg)
        /\ refusedAt' = [refusedAt EXCEPT ![videoId] = now]
        /\ UNCHANGED <<env, currentProxyIndex, now, pc, vid, starts, handed,
                       ret>>

\* downloadVideo passes the check and suspends in getVideoInfo, which has
\* selected a proxy and called ytdl.getInfo.
DownloadAdmitted(p, url) ==
  /\ FreeSlot(p)
  /\ Truthy(url) /\ validateURL(url)
  /\ LET videoId == getVideoID(url)
         chk == isRateLimited(downloadAttempts, videoId, now)
         nxt == getNextProxy(env, currentProxyIndex)
     IN /\ ~chk.limited
        /\ SumLen(starts, VideoIds) < MaxCalls
        /\ downloadAttempts' = chk.map
        /\ currentProxyIndex' = nxt.cursor
        /\ handed' = Remember(handed, nxt.proxy)
        /\ starts' = [starts EXCEPT ![videoId] = Append(@, now)]
        /\ vid' = [vid EXCEPT ![p] = videoId]
        /\ pc' = [pc EXCEPT ![p] = "info"]
        /\ resp' = NoResp
  /\ UNCHANGED <<env, refusedAt, now, ret>>

(***************************************************************************)
(* downloadVideo resumes after `await this.getVideoInfo(videoUrl)`.        *)
(***************************************************************************)
\* ytdl.getInfo rejects: getVideoInfo rethrows, the catch of downloadVideo
\* records the attempt and rethrows, the handler answers 500.
InfoRejects(p) ==
  /\ pc[p] = "info"
  /\ downloadAttempts' = recordAttempt(downloadAttempts, vid[p], now)
  /\ resp' = Respond(Download, 500, InfoErrMsg)
  /\ pc' = [pc EXCEPT ![p] = "idle"]
  /\ vid' = [vid EXCEPT ![p] = Null]
  /\ UNCHANGED <<env, refusedAt, currentProxyIndex, now, starts, handed, ret>>

\* Variant: the media stream starts without a second proxy selection.
InfoResolves_noSecondSelection(p) ==
  /\ pc[p] = "info"
  /\ pc' = [pc EXCEPT ![p] = "stream"]
  /\ resp' = NoResp
  /\ UNCHANGED <<env, refusedAt, currentProxyIndex, handed, downloadAttempts,
                 now, vid, starts, ret>>

\* ytdl.getInfo resolves: a second proxy is selected, the media stream is
\* started and its promise is returned (not awaited) from the try block.
InfoResolves(p) ==
  /\ pc[p] = "info"
  /\ LET nxt == getNextProxy(env, currentProxyIndex)
     IN /\ currentProxyIndex' = nxt.cursor
        /\ handed' = Remember(handed, nxt.proxy)
  /\ pc' = [pc EXCEPT ![p] = "stream"]
  /\ resp' = NoResp
  /\ UNCHANGED <<env, refusedAt, downloadAttempts, now, vid, starts, ret>>

(***************************************************************************)
(* The promise returned by downloadVideo settles.                          *)
(***************************************************************************)
\* The stream, ffmpeg or the write stream fails: reject(err).  The promise
\* was returned without await, so the catch of downloadVideo does not run;
\* the rejection reaches the catch of the handler, which answers 500.
StreamRejects(p) ==
  /\ pc[p] = "stream"
  /\ resp' = Respond(Download, 500, StreamErrMsg)
  /\ pc' = [pc EXCEPT ![p] = "idle"]
  /\ vid' = [vid EXCEPT ![p] = Null]
  /\ UNCHANGED <<env, refusedAt, currentProxyIndex, downloadAttempts, now,
                 starts, handed, ret>>

\* Variant: the attempt is recorded on completion as well.
StreamResolves_recording(p, readOk) ==
  /\ pc[p] = "stream"
  /\ downloadAttempts' = recordAttempt(downloadAttempts, vid[p], now)
  /\ resp' = IF readOk THEN Respond(Download, 200, "")
              ELSE Respond(Download, 500, ReadErrMsg)
  /\ pc' = [pc EXCEPT ![p] = "idle"]
  /\ vid' = [vid EXCEPT ![p] = Null]
  /\ UNCHANGED <<env, refusedAt, currentProxyIndex, now, starts, handed, ret>>

\* resolve(outputPath): downloadVideo has succeeded; the handler reads the
\* file and answers 200, or 500 when fs.readFileSync throws.
StreamResolves(p, readOk) ==
  /\ pc[p] = "stream"
  /\ resp' = IF readOk THEN Respond(Download, 200, "")
              ELSE Respond(Download, 500, ReadErrMsg)
  /\ pc' = [pc EXCEPT ![p] = "idle"]
  /\ vid' = [vid EXCEPT ![p] = Null]
  /\ UNCHANGED <<env, refusedAt, currentProxyIndex, downloadAttempts, now,
                 starts, handed, ret>>

(***************************************************************************)
(* POST /video-info.                                                       *)
(***************************************************************************)
VideoInfoBadRequest(p, url) ==
  /\ FreeSlot(p)
  /\ ~Truthy(url) \/ ~validateURL(url)
  /\ resp' = Respond(VideoInfo, 400,
                      IF ~Truthy(url) THEN "Video URL is required"
                      ELSE "Invalid YouTube URL")
  /\ UNCHANGED <<env, refusedAt, currentProxyIndex, downloadAttempts, now, pc,
                 vid, starts, handed, ret>>

\* Variant: /video-info passes through the rate-limit check.
VideoInfoStart_gated(p, url) ==
  /\ FreeSlot(p)
  /\ Truthy(url) /\ validateURL(url)
  /\ LET chk == isRateLimited(downloadAttempts, getVideoID(url), now)
         nxt == getNextProxy(env, currentProxyIndex)
     IN /\ ~chk.limited
        /\ downloadAttempts' = chk.map
        /\ currentProxyIndex' = nxt.cursor
        /\ handed' = Remember(handed, nxt.proxy)
  /\ vid' = [vid EXCEPT ![p] = getVideoID(url)]
  /\ pc' = [pc EXCEPT ![p] = "vinfo"]
  /\ resp' = NoResp
  /\ UNCHANGED <<env, refusedAt, now, starts, ret>>

VideoInfoStart(p, url) ==
  /\ FreeSlot(p)
  /\ Truthy(url) /\ validateURL(url)
  /\ LET nxt == getNextProxy(env, currentProxyIndex)
     IN /\ currentProxyIndex' = nxt.cursor
        /\ handed' = Remember(handed, nxt.proxy)
  /\ vid' = [vid EXCEPT ![p] = getVideoID(url)]
  /\ pc' = [pc EXCEPT ![p] = "vinfo"]
  /\ resp' = NoResp
  /\ UNCHANGED <<env, refusedAt, downloadAttempts, now, starts, ret>>

VideoInfoSettles(p, ok) ==
  /\ pc[p] = "vinfo"
  /\ resp' = Respond(VideoInfo, IF ok THEN 200 ELSE 500,
                      IF ok THEN "" ELSE InfoErrMsg)
  /\ pc' = [pc EXCEPT ![p] = "idle"]
  /\ vid' = [vid EXCEPT ![p] = Null]
  /\ UNCHANGED <<env, refusedAt, currentProxyIndex, downloadAttempts, now,
                 starts, handed, ret>>

(***************************************************************************)
(* The service: requests handled concurrently on one event loop.           *)
(***************************************************************************)
Next ==
  \/ \E d \in TickSteps : Tick(d)
  \/ \E p \in Reqs, url \in Urls : DownloadBadRequest(p, url)
  \/ \E p \in Reqs, url \in Urls : DownloadRefused(p, url)
  \/ \E p \in Reqs, url \in Urls : DownloadAdmitted(p, url)
  \/ \E p \in Reqs : InfoRejects(p)
  \/ \E p \in Reqs : InfoResolves(p)
  \/ \E p \in Reqs : StreamRejects(p)
  \/ \E p \in Reqs, readOk \in BOOLEAN : StreamResolves(p, readOk)
  \/ \E p \in Reqs, url \in Urls : VideoInfoBadRequest(p, url)
  \/ \E p \in Reqs, url \in Urls : VideoInfoStart(p, url)
  \/ \E p \in Reqs, ok \in BOOLEAN : VideoInfoSettles(p, ok)

Spec == Init /\ [][Next]_vars

SpecNoProxy == InitNoProxy /\ [][Next]_vars

(***************************************************************************)
(* The gate operations called directly, in any order.                      *)
(***************************************************************************)
GateIsRateLimited(id) ==
  /\ LET chk == isRateLimited(downloadAttempts, id, now)
     IN /\ downloadAttempts' = chk.map
        /\ ret' = Ret("isRateLimited", id, chk.limited)
  /\ UNCHANGED <<env, refusedAt, currentProxyIndex, now, pc, vid, resp, starts,
                 handed>>

GateRecordAttempt(id) ==
  /\ SumLen(downloadAttempts, DOMAIN downloadAttempts) < MaxHist
  /\ downloadAttempts' = recordAttempt(downloadAttempts, id, now)
  /\ ret' = Ret("recordAttempt", id, Undefined)
  /\ UNCHANGED <<env, refusedAt, currentProxyIndex, now, pc, vid, resp, starts,
                 handed>>

GateGetNextProxy ==
  /\ LET nxt == getNextProxy(env, currentProxyIndex)
     IN /\ currentProxyIndex' = nxt.cursor
        /\ handed' = Remember(handed, nxt.proxy)
        /\ ret' = Ret("getNextProxy", Null, nxt.proxy)
  /\ UNCHANGED <<env, refusedAt, downloadAttempts, now, pc, vid, resp, starts>>

InitGate == env \in EnvConfigs /\ InitState

NextGate ==
  \/ \E d \in TickSteps : Tick(d)
  \/ \E id \in VideoIds : GateIsRateLimited(id)
  \/ \E id \in VideoIds : GateRecordAttempt(id)
  \/ GateGetNextProxy

SpecGate == InitGate /\ [][NextGate]_vars

(***************************************************************************)
(* The gate operations called directly while the clock follows the         *)
(* timeline 0, 10 000, 20 000, 30 000, 40 000, 45 000, 71 000.             *)
(***************************************************************************)
ScenarioIds == {"abc123", "v1"}
ScenarioClock == {0, 10000, 20000, 30000, 40000, 45000, 71000}
ScenarioSteps == {5000, 10000, 26000}

NextScenario ==
  \/ \E d \in ScenarioSteps : now + d \in ScenarioClock /\ Tick(d)
  \/ \E id \in ScenarioIds : GateIsRateLimited(id)
  \/ \E id \in ScenarioIds : GateRecordAttempt(id)

SpecScenario == Init /\ [][NextScenario]_vars

(***************************************************************************)
(* Downloads that do not overlap: downloadVideo is called only when no     *)
(* request is in flight.  The clock takes values on both sides of the      *)
(* window boundary.                                                        *)
(***************************************************************************)
NoneInFlight == \A q \in Reqs : pc[q] = "idle"

SerialClock == {1, TIME_WINDOW - 1, TIME_WINDOW, TIME_WINDOW + 1,
                2 * TIME_WINDOW - 2}

SerialTick == \E d \in TickSteps \cup {1} : now + d \in SerialClock /\ Tick(d)

\* Every admitted attempt fails in the awaited getVideoInfo step.
NextSerialFailing ==
  \/ SerialTick
  \/ \E p \in Reqs, url \in Urls : DownloadRefused(p, url)
  \/ \E p \in Reqs, url \in Urls : NoneInFlight /\ DownloadAdmitted(p, url)
  \/ \E p \in Reqs : InfoRejects(p)

SpecSerialFailing == Init /\ [][NextSerialFailing]_vars

\* Downloads one at a time, with every outcome, for every pool.
NextSerial ==
  \/ SerialTick
  \/ \E p \in Reqs, url \in Urls : DownloadRefused(p, url)
  \/ \E p \in Reqs, url \in Urls : NoneInFlight /\ DownloadAdmitted(p, url)
  \/ \E p \in Reqs : InfoRejects(p)
  \/ \E p \in Reqs : InfoResolves(p)
  \/ \E p \in Reqs : StreamRejects(p)
  \/ \E p \in Reqs, readOk \in BOOLEAN : StreamResolves(p, readOk)

SpecSerial == InitGate /\ [][NextSerial]_vars

(***************************************************************************)
(* Types.                                                                  *)
(***************************************************************************)
TypeOK ==
  /\ env \in EnvConfigs
  /\ currentProxyIndex \in 0..2
  /\ DOMAIN downloadAttempts \subseteq VideoIds \cup ScenarioIds
  /\ \A k \in DOMAIN downloadAttempts :
       \A i \in 1..Len(downloadAttempts[k]) :
         downloadAttempts[k][i] \in 0..MaxTime
  /\ now \in 0..MaxTime
  /\ pc \in [Reqs -> {"idle", "info", "stream", "vinfo"}]
  /\ vid \in [Reqs -> VideoIds \cup {Null}]
  /\ \A v \in VideoIds : Len(starts[v]) <= MaxCalls
  /\ Len(handed) <= HandedWindow
  /\ refusedAt \in [VideoIds -> -1..MaxTime]

(***************************************************************************)
(* Vocabulary of the properties.                                           *)
(***************************************************************************)
\* The timestamps stored for id (none for an id that is not a key).
Hist(id) ==
  IF id \in DOMAIN downloadAttempts THEN downloadAttempts[id] ELSE <<>>

\* How many timestamps of h were recorded within the TIME_WINDOW ms that end
\* at t: their age t - h[i] is less than TIME_WINDOW.
RecentCountOf(h, t) ==
  Cardinality({i \in 1..Len(h) : t - h[i] < TIME_WINDOW})

\* Every timestamp of h is more than TIME_WINDOW ms old at t.
AllExpired(h, t) == \A i \in 1..Len(h) : t - h[i] > TIME_WINDOW

\* new holds no timestamp that old did not hold: it is old without some of
\* its oldest entries.
Suffix(new, old) ==
  /\ Len(new) <= Len(old)
  /\ \A i \in 1..Len(new) : new[i] = old[Len(old) - Len(new) + i]

\* The configured pool.
Pool == Proxies(env)

\* new starts with all of old.
Extends(new, old) ==
  /\ Len(old) <= Len(new)
  /\ \A i \in 1..Len(old) : new[i] = old[i]

\* new is the subsequence of old at the positions in keep, in the order of
\* old.
SubseqAt(new, old, keep) ==
  /\ Len(new) = Cardinality(keep)
  /\ \A i \in keep : new[Cardinality({j \in keep : j <= i})] = old[i]

(***************************************************************************)
(* C1.  If 5 or more of the timestamps stored for an identifier were       *)
(* recorded within the last 60 000 ms, isRateLimited(identifier) returns   *)
(* true: both the value the operation would return in the current state    *)
(* and the value a call just made has returned.                            *)
(***************************************************************************)
C1_LimitedAtThreshold ==
  \A id \in VideoIds :
    RecentCountOf(Hist(id), now) >= 5 =>
      /\ isRateLimited(downloadAttempts, id, now).limited = TRUE
      /\ (ret.op = "isRateLimited" /\ ret.id = id) => ret.value = TRUE

C1_Witness ==
  /\ ret = Ret("isRateLimited", "v1", TRUE)
  /\ now > 0
  /\ RecentCountOf(Hist("v1"), now) >= 5

(***************************************************************************)
(* C2.  If fewer than 5 of the timestamps stored for an identifier were    *)
(* recorded within the last 60 000 ms, isRateLimited(identifier) returns   *)
(* false; an identifier that is not a key of the map counts as having no   *)
(* attempt, and the operation is defined for it.                           *)
(***************************************************************************)
C2_AdmittedBelowThreshold ==
  \A id \in VideoIds :
    RecentCountOf(Hist(id), now) < 5 =>
      /\ isRateLimited(downloadAttempts, id, now).limited = FALSE
      /\ (ret.op = "isRateLimited" /\ ret.id = id) => ret.value = FALSE

C2_Witness ==
  /\ ret = Ret("isRateLimited", "v1", FALSE)
  /\ Len(Hist("v1")) = 4
  /\ "v2" \notin DOMAIN downloadAttempts

(***************************************************************************)
(* C3.  Once every timestamp recorded for an identifier is more than       *)
(* 60 000 ms old, isRateLimited(identifier) returns false, however many    *)
(* attempts were recorded.                                                 *)
(***************************************************************************)
C3_ExpiredNeverCount ==
  \A id \in VideoIds :
    AllExpired(Hist(id), now) =>
      /\ isRateLimited(downloadAttempts, id, now).limited = FALSE
      /\ isRateLimited(downloadAttempts, id, now).map[id] = <<>>

C3_Witness ==
  /\ Len(Hist("v1")) >= 5
  /\ AllExpired(Hist("v1"), now)
  /\ ret.op = "none"

(***************************************************************************)
(* C4.  When the external library fails during an admitted downloadVideo   *)
(* call, in ytdl.getInfo or later in the media stream, the step that       *)
(* delivers the failure to the HTTP handler appends the current time to    *)
(* the history of the video.                                               *)
(***************************************************************************)
C4_FailureRecorded ==
  [][\A p \in Reqs :
       ( /\ pc[p] \in {"info", "stream"}
         /\ pc'[p] = "idle"
         /\ resp'.error \in {InfoErrMsg, StreamErrMsg} )
       => MapGet(downloadAttempts', vid[p])
            = Append(MapGet(downloadAttempts, vid[p]), now)]_vars

(***************************************************************************)
(* C5.  No step of a downloadVideo call that completes successfully adds   *)
(* a timestamp: the admission only prunes the history of the video, and    *)
(* the resumption after getInfo and the completion leave the whole map     *)
(* unchanged.                                                              *)
(***************************************************************************)
C5_SuccessRecordsNothing ==
  [][\A p \in Reqs :
       /\ (pc[p] = "idle" /\ pc'[p] = "info")
            => \A id \in VideoIds :
                 Suffix(MapGet(downloadAttempts', id),
                        MapGet(downloadAttempts, id))
       /\ (pc[p] = "info" /\ pc'[p] = "stream")
            => downloadAttempts' = downloadAttempts
       /\ (pc[p] = "stream" /\ pc'[p] = "idle" /\ resp'.error # StreamErrMsg)
            => downloadAttempts' = downloadAttempts]_vars

C5_Witness ==
  /\ resp = Respond(Download, 200, "")
  /\ Len(Hist("v1")) = 4
  /\ RecentCountOf(Hist("v1"), now) = 4

(***************************************************************************)
(* C6.  A download requested while 5 or more attempts are in the window    *)
(* is not admitted, and the step that answers 'Rate limit exceeded.        *)
(* Please try again later.' starts no call of ytdl.getInfo, leaves every   *)
(* request where it was, adds no timestamp to any history and leaves the   *)
(* rotation cursor unchanged.                                              *)
(***************************************************************************)
C6_RefusalTouchesNothing ==
  [][/\ \A p \in Reqs :
          (pc[p] = "idle" /\ pc'[p] = "info")
            => RecentCountOf(MapGet(downloadAttempts, vid'[p]), now) < 5
     /\ resp'.error = RateLimitMsg
          => /\ resp' = Respond(Download, 500, RateLimitMsg)
             /\ pc' = pc
             /\ starts' = starts
             /\ currentProxyIndex' = currentProxyIndex
             /\ handed' = handed
             /\ \A id \in VideoIds :
                  Suffix(MapGet(downloadAttempts', id),
                         MapGet(downloadAttempts, id))]_vars

C6_Witness ==
  /\ resp = Respond(Download, 500, RateLimitMsg)
  /\ \E p \in Reqs : pc[p] = "stream"
  /\ currentProxyIndex = 1

(***************************************************************************)
(* C7.  A download request is refused exactly when 5 or more attempts of   *)
(* the video are in the window; a refusal leaves that number as it was;    *)
(* the passing of time never raises it and brings it to 0 once 60 000 ms   *)
(* have passed: so a throttled video is admitted again when fewer than 5   *)
(* attempts remain in the window.                                          *)
(***************************************************************************)
C7_ThrottleHoldsAndLifts ==
  [][/\ \A p \in Reqs :
          (pc[p] = "idle" /\ pc'[p] = "info")
            => RecentCountOf(MapGet(downloadAttempts, vid'[p]), now) < 5
     /\ \A id \in VideoIds :
          (resp'.error = RateLimitMsg /\ refusedAt'[id] # refusedAt[id])
            => /\ RecentCountOf(MapGet(downloadAttempts, id), now) >= 5
               /\ RecentCountOf(MapGet(downloadAttempts', id), now')
                    = RecentCountOf(MapGet(downloadAttempts, id), now)
     /\ resp'.error = RateLimitMsg => refusedAt'["v1"] = now
     /\ \A id \in VideoIds :
          now' > now
            => /\ RecentCountOf(MapGet(downloadAttempts', id), now')
                    <= RecentCountOf(MapGet(downloadAttempts, id), now)
               /\ now' - now >= TIME_WINDOW
                    => RecentCountOf(MapGet(downloadAttempts', id), now') = 0
    ]_vars

C7_Witness ==
  /\ refusedAt["v1"] >= 0
  /\ now > refusedAt["v1"]
  /\ \E p \in Reqs : pc[p] = "info" /\ vid[p] = "v1"
  /\ starts["v1"] # <<>> /\ starts["v1"][Len(starts["v1"])] = now
  /\ Len(Hist("v1")) = 4
  /\ RecentCountOf(Hist("v1"), now) = 4

(***************************************************************************)
(* C8.  The limiter is advisory: requests that overlap all pass the check  *)
(* before any of them records its failure, so more than 5 attempts can be  *)
(* stored inside one window, after more than 5 calls of ytdl.getInfo in    *)
(* that window.  The excess is bounded by the number of requests that      *)
(* overlap: at most 4 + NumReqs timestamps are ever stored for a video.    *)
(***************************************************************************)
C8_ExcessBoundedByOverlap ==
  \A id \in VideoIds : Len(Hist(id)) <= (MAX_ATTEMPTS - 1) + NumReqs

C8_Witness ==
  /\ RecentCountOf(Hist("v1"), now) > 5
  /\ Len(starts["v1"]) > 5
  /\ \A p \in Reqs : pc[p] = "idle"

(***************************************************************************)
(* C9.  With a non-empty pool of K proxies, the last K values returned by  *)
(* getNextProxy are the pool entries in pool order, each once, starting    *)
(* at index (cursor + 1) mod K, where cursor is the cursor before those K  *)
(* calls (and again after them); counted from the start, call number j     *)
(* returns the entry at index j mod K, so that with the pool               *)
(* [proxyA, proxyB] the calls return proxyB, proxyA, proxyB, proxyA.       *)
(***************************************************************************)
C9_RoundRobin ==
  LET K == Len(Pool)
      n == Len(handed)
  IN K > 0 =>
       /\ n >= K =>
            \A j \in 1..K :
              handed[n - K + j] = Pool[((currentProxyIndex + j) % K) + 1]
       /\ n < HandedWindow =>
            \A j \in 1..n : handed[j] = Pool[(j % K) + 1]
       /\ (Pool = <<"proxyA", "proxyB">> /\ n >= 1 /\ n < HandedWindow)
            => handed[1] = "proxyB"

C9_Witness ==
  /\ env = <<"proxyA", "proxyB", Undefined>>
  /\ handed = <<"proxyB", "proxyA", "proxyB", "proxyA">>
  /\ ret = Ret("getNextProxy", Null, "proxyA")

(***************************************************************************)
(* C10.  With no proxy configured, every getNextProxy call returns null    *)
(* and leaves the cursor at its value, and downloads are admitted and run  *)
(* to completion without a proxy.                                          *)
(***************************************************************************)
C10_NoProxyConfigured ==
  Pool = <<>> =>
    /\ currentProxyIndex = 0
    /\ \A j \in 1..Len(handed) : handed[j] = Null
    /\ getNextProxy(env, currentProxyIndex)
         = [cursor |-> currentProxyIndex, proxy |-> Null]

C10_Witness ==
  /\ Pool = <<>>
  /\ resp = Respond(Download, 200, "")
  /\ Len(handed) >= 2
  /\ handed[Len(handed)] = Null

(***************************************************************************)
(* C11.  With a non-empty pool the rotation cursor is a valid index of the *)
(* pool, 0 <= cursor < pool.length, in every reachable state: from its     *)
(* initial value 0 and after the getNextProxy calls of requests that       *)
(* overlap.                                                                *)
(***************************************************************************)
C11_CursorInRange ==
  Len(Pool) > 0 =>
    /\ currentProxyIndex >= 0
    /\ currentProxyIndex < Len(Pool)

C11_Witness ==
  /\ Len(Pool) = 2
  /\ currentProxyIndex = Len(Pool) - 1
  /\ Len(handed) = HandedWindow
  /\ \E p, q \in Reqs : pc[p] = "stream" /\ pc[q] = "info"

(***************************************************************************)
(* C12.  Scenario for "abc123": once attempts have been recorded at times  *)
(* 0, 10 000, 20 000, 30 000 and 40 000, isRateLimited("abc123") called at *)
(* time 45 000 returns true, and called at time 71 000 returns false.      *)
(***************************************************************************)
ScenarioRecorded == <<0, 10000, 20000, 30000, 40000>>

C12_ScenarioChecks ==
  [][( /\ Hist("abc123") = ScenarioRecorded
       /\ ret'.op = "isRateLimited"
       /\ ret'.id = "abc123" )
     => /\ now = 45000 => ret'.value = TRUE
        /\ now = 71000 => ret'.value = FALSE]_vars

C12_Witness ==
  /\ now = 45000
  /\ ret = Ret("isRateLimited", "abc123", TRUE)
  /\ Hist("abc123") = ScenarioRecorded

(***************************************************************************)
(* C13.  As stated: in that scenario, at the check made at time 71 000     *)
(* only the attempt of time 0 has left the window: 4 attempts are in the   *)
(* window, and after the check the stored history is 10 000, 20 000,       *)
(* 30 000, 40 000.                                                         *)
(***************************************************************************)
C13_FourRemain ==
  [][( /\ Hist("abc123") = ScenarioRecorded
       /\ now = 71000
       /\ ret'.op = "isRateLimited"
       /\ ret'.id = "abc123" )
     => /\ RecentCountOf(Hist("abc123"), now) = 4
        /\ "abc123" \in DOMAIN downloadAttempts'
        /\ downloadAttempts'["abc123"] = <<10000, 20000, 30000, 40000>>]_vars

(***************************************************************************)
(* C13, amended.  At the check made at time 71 000 the attempts of times 0 *)
(* and 10 000 have both left the window (they are 71 000 and 61 000 ms     *)
(* old): 3 attempts are in the window, the check returns false, and after  *)
(* it the stored history is 20 000, 30 000, 40 000.                        *)
(***************************************************************************)
C13_ThreeRemain ==
  [][( /\ Hist("abc123") = ScenarioRecorded
       /\ now = 71000
       /\ ret'.op = "isRateLimited"
       /\ ret'.id = "abc123" )
     => /\ RecentCountOf(Hist("abc123"), now) = 3
        /\ "abc123" \in DOMAIN downloadAttempts'
        /\ downloadAttempts'["abc123"] = <<20000, 30000, 40000>>
        /\ ret'.value = FALSE]_vars

C13_Witness ==
  /\ now = 71000
  /\ ret = Ret("isRateLimited", "abc123", FALSE)
  /\ Hist("abc123") = <<20000, 30000, 40000>>
  /\ Hist("v1") = <<45000>>

(***************************************************************************)
(* C14.  recordAttempt is strictly additive: for an identifier whose       *)
(* stored attempts were all recorded at the current time (a fresh          *)
(* identifier, no time advance), each recordAttempt call stores one more   *)
(* timestamp, so N calls leave N; an isRateLimited call made then returns  *)
(* false after 4 calls and true after 5, and removes nothing.              *)
(***************************************************************************)
C14_StrictlyAdditive ==
  [][\A id \in VideoIds :
       LET h == Hist(id)
           hNew == MapGet(downloadAttempts', id)
       IN (\A i \in 1..Len(h) : h[i] = now) =>
            /\ (ret'.op = "recordAttempt" /\ ret'.id = id)
                 => /\ Len(hNew) = Len(h) + 1
                    /\ \A i \in 1..Len(hNew) : hNew[i] = now
            /\ (ret'.op = "isRateLimited" /\ ret'.id = id)
                 => /\ hNew = h
                    /\ Len(h) = 4 => ret'.value = FALSE
                    /\ Len(h) = 5 => ret'.value = TRUE
                    /\ ret'.value = (Len(h) >= 5)]_vars

C14_Witness ==
  /\ now = 59999
  /\ Hist("v1") = <<59999, 59999, 59999, 59999, 59999>>
  /\ "v2" \notin DOMAIN downloadAttempts
  /\ ret = Ret("isRateLimited", "v1", TRUE)

(***************************************************************************)
(* C15.  The timestamps stored for each identifier are in non-decreasing   *)
(* order in every reachable state: recordAttempt appends the current time  *)
(* at the end, the clock never goes back, and the pruning of isRateLimited *)
(* keeps the order of what it keeps.                                       *)
(***************************************************************************)
C15_HistorySorted ==
  \A id \in DOMAIN downloadAttempts :
    LET h == downloadAttempts[id]
    IN /\ \A i, j \in 1..Len(h) : i <= j => h[i] <= h[j]
       /\ \A i \in 1..Len(h) : h[i] <= now

C15_Witness ==
  /\ Hist("abc123") = <<20000, 30000, 40000, 71000>>
  /\ Hist("v1") = <<0, 45000>>
  /\ ret = Ret("recordAttempt", "abc123", Undefined)

(***************************************************************************)
(* C16.  isRateLimited discards only the timestamps that are older than    *)
(* the window: a timestamp whose age at the check is exactly 60 000 ms is  *)
(* kept in the stored history and counted, so that an identifier with 5    *)
(* attempts all exactly 60 000 ms old is rate limited.                     *)
(***************************************************************************)
C16_BoundaryKept ==
  [][\A id \in VideoIds :
       (ret'.op = "isRateLimited" /\ ret'.id = id) =>
         LET h == Hist(id)
             NotOlder(time) == now - time <= TIME_WINDOW
             kept == SelectSeq(h, NotOlder)
         IN /\ MapGet(downloadAttempts', id) = kept
            /\ ret'.value = (Len(kept) >= MAX_ATTEMPTS)]_vars

(***************************************************************************)
(* C17.  Every isRateLimited(identifier) call compacts the history: after  *)
(* the call the identifier is a key of the map, the value stored for it is *)
(* the subsequence of the timestamps stored before that are inside the     *)
(* window (age less than 60 000 ms), in their order, empty for an          *)
(* identifier that had none; the boolean returned is (length of that       *)
(* stored sequence >= 5); the other identifiers are left as they were.     *)
(***************************************************************************)
C17_CheckCompacts ==
  [][\A id \in VideoIds :
       (ret'.op = "isRateLimited" /\ ret'.id = id) =>
         LET h == Hist(id)
             inside == {i \in 1..Len(h) : now - h[i] < TIME_WINDOW}
         IN /\ id \in DOMAIN downloadAttempts'
            /\ SubseqAt(downloadAttempts'[id], h, inside)
            /\ ret'.value = (Len(downloadAttempts'[id]) >= 5)
            /\ \A other \in VideoIds \ {id} :
                 /\ other \in DOMAIN downloadAttempts'
                      <=> other \in DOMAIN downloadAttempts
                 /\ MapGet(downloadAttempts', other) = Hist(other)]_vars

C17_Witness ==
  /\ now = 119998
  /\ ret = Ret("isRateLimited", "v1", FALSE)
  /\ Hist("v1") = <<59999, 119998>>
  /\ Hist("v2") = <<0, 0, 59999>>

(***************************************************************************)
(* C18.  recordAttempt never prunes: each call leaves the sequence stored  *)
(* for the identifier exactly one element longer, the current time added   *)
(* at the end and every timestamp stored before kept, those outside the    *)
(* window included, and leaves the other identifiers alone; a stored       *)
(* timestamp disappears only in an isRateLimited call for its identifier.  *)
(***************************************************************************)
C18_NoPruneOnWrite ==
  [][\A id \in VideoIds :
       LET h == Hist(id)
           hNew == MapGet(downloadAttempts', id)
       IN /\ (ret'.op = "recordAttempt" /\ ret'.id = id)
               => /\ hNew = Append(h, now)
                  /\ Len(hNew) = Len(h) + 1
                  /\ \A other \in VideoIds \ {id} :
                       MapGet(downloadAttempts', other) = Hist(other)
          /\ ~Extends(hNew, h)
               => (ret'.op = "isRateLimited" /\ ret'.id = id)]_vars

C18_Witness ==
  /\ now = 60000
  /\ ret = Ret("recordAttempt", "v1", Undefined)
  /\ Hist("v1") = <<0, 0, 60000, 60000>>
  /\ RecentCountOf(Hist("v1"), now) = 2

(***************************************************************************)
(* C19.  The set of keys of the attempt map never shrinks: no step removes *)
(* a key; an isRateLimited call makes its identifier a key, also when no   *)
(* attempt was ever recorded for it; an identifier whose attempts have all *)
(* expired and been pruned stays a key, with an empty sequence.            *)
(***************************************************************************)
C19_KeysNeverShrink ==
  [][/\ DOMAIN downloadAttempts \subseteq DOMAIN downloadAttempts'
     /\ \A id \in VideoIds :
          (ret'.op \in {"isRateLimited", "recordAttempt"} /\ ret'.id = id)
            => id \in DOMAIN downloadAttempts'
     /\ \A id \in VideoIds :
          ( /\ ret'.op = "isRateLimited" /\ ret'.id = id
            /\ \A i \in 1..Len(Hist(id)) : now - Hist(id)[i] >= TIME_WINDOW )
            => /\ id \in DOMAIN downloadAttempts'
               /\ downloadAttempts'[id] = <<>>]_vars

C19_Witness ==
  /\ now = 119998
  /\ DOMAIN downloadAttempts = {"v1", "v2"}
  /\ downloadAttempts["v1"] = <<>>
  /\ Len(downloadAttempts["v2"]) = 5
  /\ AllExpired(downloadAttempts["v2"], now)
  /\ ret = Ret("isRateLimited", "v1", FALSE)

(***************************************************************************)
(* C20.  Each gate operation is one atomic step, whatever requests are in  *)
(* flight: the step in which a request records its failure leaves the      *)
(* history of its video exactly one timestamp longer (nothing recorded by  *)
(* another request is lost) and the other histories as they were; the      *)
(* step in which a request calls getNextProxy advances the cursor by one   *)
(* modulo the pool size (no call of another request is lost).              *)
(***************************************************************************)
C20_GateStepsAtomic ==
  [][\A p \in Reqs :
       pc'[p] # pc[p] =>
         /\ (pc[p] = "info" /\ pc'[p] = "idle")
              => /\ MapGet(downloadAttempts', vid[p])
                      = Append(Hist(vid[p]), now)
                 /\ \A other \in VideoIds \ {vid[p]} :
                      MapGet(downloadAttempts', other) = Hist(other)
         /\ (pc'[p] \in {"info", "vinfo", "stream"} /\ Len(Pool) > 0)
              => currentProxyIndex' = (currentProxyIndex + 1) % Len(Pool)]_vars

C20_Witness ==
  /\ resp = Respond(Download, 500, InfoErrMsg)
  /\ \E p \in Reqs : pc[p] = "info" /\ vid[p] = "v1"
  /\ Len(Hist("v1")) >= 2
  /\ Hist("v1")[Len(Hist("v1"))] = now
  /\ Hist("v1")[Len(Hist("v1")) - 1] = now
  /\ now > 0

(***************************************************************************)
(* C21.  When the downloads of a video do not overlap and every admitted   *)
(* attempt fails in the awaited video-info step, at most 5 calls of        *)
(* ytdl.getInfo for the video are made in any interval shorter than        *)
(* 60 000 ms, and after 5 such calls a further request is refused with     *)
(* the rate-limit error.                                                   *)
(***************************************************************************)
C21_SerialRateBounded ==
  \A id \in VideoIds :
    /\ Len(starts[id]) <= MAX_ATTEMPTS
    /\ (Len(starts[id]) = MAX_ATTEMPTS /\ NoneInFlight)
         => /\ isRateLimited(downloadAttempts, id, now).limited
            /\ RecentCountOf(Hist(id), now) >= MAX_ATTEMPTS

C21_Witness ==
  /\ resp = Respond(Download, 500, RateLimitMsg)
  /\ Len(starts["v1"]) = 5
  /\ starts["v1"][1] = 1
  /\ starts["v1"][5] = TIME_WINDOW
  /\ now = TIME_WINDOW

(***************************************************************************)
(* C22.  With a non-empty pool of K proxies and downloads that do not      *)
(* overlap: the admission of a download advances the cursor by one (the    *)
(* selection of getVideoInfo), its resumption after getInfo by one more    *)
(* (the selection for the media stream), and no other step moves the       *)
(* cursor; so a download that fails in the info step has advanced it by 1  *)
(* and one that reaches the streaming step by 2 modulo K, its stream using *)
(* the entry at the cursor and its getInfo the entry before.  With K = 2,  *)
(* as long as every download so far has reached the streaming step, every  *)
(* media stream uses the same pool entry, the first.  (Before the first    *)
(* window has passed nothing has been pruned, so an empty map of recorded  *)
(* attempts tells that no download has failed in the info step.)           *)
(***************************************************************************)
C22_TwoSelectionsPerDownload ==
  [][LET K == Len(Pool)
         n == Len(handed')
         Next1 == (currentProxyIndex + 1) % K
     IN K > 0 =>
          /\ \A p \in Reqs :
               /\ (pc[p] = "idle" /\ pc'[p] = "info")
                    => currentProxyIndex' = Next1
               /\ (pc[p] = "info" /\ pc'[p] = "stream")
                    => /\ currentProxyIndex' = Next1
                       /\ n >= 2
                       /\ handed'[n] = Pool[currentProxyIndex' + 1]
                       /\ handed'[n - 1] = Pool[currentProxyIndex + 1]
               /\ (pc[p] \in {"info", "stream"} /\ pc'[p] = "idle")
                    => currentProxyIndex' = currentProxyIndex
          /\ pc' = pc => currentProxyIndex' = currentProxyIndex
          /\ ( /\ K = 2
               /\ now < TIME_WINDOW
               /\ \A id \in VideoIds : Hist(id) = <<>>
               /\ \E p \in Reqs : pc[p] = "info" /\ pc'[p] = "stream" )
               => handed'[n] = Pool[1]]_vars

C22_Witness ==
  /\ Len(Pool) = 2
  /\ \E p \in Reqs : pc[p] = "stream"
  /\ Len(starts["v1"]) = 3
  /\ \A id \in VideoIds : Hist(id) = <<>>
  /\ now = TIME_WINDOW - 1
  /\ handed = <<"proxyB", "proxyA", "proxyB", "proxyA">>

(***************************************************************************)
(* C23.  The gate operations do not touch each other's state: a call of    *)
(* isRateLimited(a) or recordAttempt(a) leaves the cursor, and for every   *)
(* other identifier b the key, the stored history and the answer of        *)
(* isRateLimited(b), as they were; a call of getNextProxy leaves the whole *)
(* attempt map as it was.  So the failures of one video never throttle     *)
(* another.                                                                *)
(***************************************************************************)
C23_GateFrames ==
  [][/\ \A a \in VideoIds :
          (ret'.op \in {"isRateLimited", "recordAttempt"} /\ ret'.id = a)
            => /\ currentProxyIndex' = currentProxyIndex
               /\ handed' = handed
               /\ \A b \in VideoIds \ {a} :
                    /\ (b \in DOMAIN downloadAttempts')
                         = (b \in DOMAIN downloadAttempts)
                    /\ MapGet(downloadAttempts', b) = Hist(b)
                    /\ isRateLimited(downloadAttempts', b, now').limited
                         = isRateLimited(downloadAttempts, b, now).limited
     /\ ret'.op = "getNextProxy" => downloadAttempts' = downloadAttempts
     /\ \A a \in VideoIds :
          ( /\ RecentCountOf(MapGet(downloadAttempts', a), now') < 5
            /\ ret'.op = "isRateLimited" /\ ret'.id = a )
            => ret'.value = FALSE]_vars

C23_Witness ==
  /\ RecentCountOf(Hist("v1"), now) >= 5
  /\ isRateLimited(downloadAttempts, "v1", now).limited
  /\ Hist("v2") = <<now>>
  /\ ret = Ret("isRateLimited", "v2", FALSE)
  /\ currentProxyIndex = 2

(***************************************************************************)
(* C24.  POST /video-info is outside the admission gate: the step in which *)
(* its getVideoInfo call selects a proxy and calls ytdl.getInfo advances   *)
(* the cursor (by one modulo the pool size) and leaves the attempt map as  *)
(* it was, no key added and nothing pruned; the step that delivers its     *)
(* result, success or failure, leaves the map and the cursor as they were; *)
(* no answer of this route is the rate-limit error.  The call is made also *)
(* for a video whose downloads are being refused.                          *)
(***************************************************************************)
C24_VideoInfoOutsideGate ==
  [][/\ \A p \in Reqs :
          pc'[p] # pc[p] =>
            /\ pc'[p] = "vinfo"
                 => /\ downloadAttempts' = downloadAttempts
                    /\ starts' = starts
                    /\ Len(Pool) > 0
                         => currentProxyIndex'
                              = (currentProxyIndex + 1) % Len(Pool)
            /\ pc[p] = "vinfo"
                 => /\ downloadAttempts' = downloadAttempts
                    /\ currentProxyIndex' = currentProxyIndex
                    /\ resp'.route = VideoInfo
     /\ resp'.route = VideoInfo
          => /\ downloadAttempts' = downloadAttempts
             /\ resp'.error # RateLimitMsg]_vars

C24_Witness ==
  /\ \E p \in Reqs : pc[p] = "vinfo" /\ vid[p] = "v1"
  /\ RecentCountOf(Hist("v1"), now) >= 5
  /\ isRateLimited(downloadAttempts, "v1", now).limited
  /\ refusedAt["v1"] = now
  /\ resp = NoResp
  /\ now > 0

=============================================================================
